---- MODULE Spec2Model ----
(***************************************************************************)
(* Model of the question-answering pipeline of                             *)
(* examples/langgraph_questioning_system.py: template matching, parameter  *)
(* derivation, query rendering, SmartDataEngine.execute_sql and the five   *)
(* LangGraph nodes.                                                        *)
(*                                                                         *)
(* Text.  TLA+ strings are ASCII, so every Chinese character of the source *)
(* is written as one capitalised syllable, and a question is a sequence of *)
(* such characters:                                                        *)
(*   这 Zhe  个 Ge   月 Yue  坪 Ping 山 Shan 街 Jie  道 Dao  办 Ban        *)
(*   事 Shi  处 Chu  理 Li   了 Le   多 Duo  少 Shao 案 An   件 Jian       *)
(*   暴 Bao  露 Lu   垃 La   圾 Ji   的 De   主 Zhu  要 Yao  来 Lai        *)
(*   源 Yuan 是 Shih 什 Shen 么 Me   统 Tong 计 Jii  各 Gee  类 Lei        *)
(*   型 Xing 数 Shu  量 Liang 今 Jin 天 Tian 气 Qi   怎 Zen  样 Yang       *)
(* "7" stands for an ASCII letter or digit, "," for the full-width comma   *)
(* (a character outside [一-龥A-Za-z0-9]) and "\n" for a newline.  *)
(* Strings the program builds (parameters, SQL, log lines) are TLA+        *)
(* strings made with \o; a character sequence becomes a string with Join.  *)
(***************************************************************************)
EXTENDS Integers, Sequences, FiniteSets, TLC

VARIABLES
    question,   \* the question text of this invocation (sequence of characters)
    today,      \* what _dt.date.today() returns during this invocation
    dbConfig,   \* SmartDataEngine._db_config is truthy
    driver,     \* how mysql.connector is installed in the runtime environment
    state,      \* the QAState threaded through the graph
    pc,         \* the node the compiled graph runs next, "END" or "raised"
    trace,      \* the nodes that have run, in order
    raised,     \* the exception that escaped to the caller of app.invoke
    gateway,    \* what execute_sql did to the store: calls, checks, connections
    probe,      \* result of the pure function a function-level specification applies
    arg,        \* the dict the node that ran last was called with: as passed, and as the node left it
    runs,       \* the invocations that share one compiled graph (SpecTwo)
    heap        \* the list objects their logs refer to (SpecTwo)

vars == <<question, today, dbConfig, driver, state, pc, trace, raised, gateway, probe, arg, runs, heap>>

\* ------------------------------------------------------------------ bounds

MaxQTokens == 2      \* words per generated question, pipeline specification
MaxMatchTokens == 4  \* words per generated question, matching specification
MaxYears == 2        \* calendar years after 2023 covered by the date specification
MaxRows == 2         \* rows a successful store query returns

\* -------------------------------------------------------------- characters

CJK ==
    {"Zhe", "Ge", "Yue", "Ping", "Shan", "Jie", "Dao", "Ban", "Shi", "Chu", "Li",
     "Le", "Duo", "Shao", "An", "Jian", "Bao", "Lu", "La", "Ji", "De", "Zhu",
     "Yao", "Lai", "Yuan", "Shih", "Shen", "Me", "Tong", "Jii", "Gee", "Lei",
     "Xing", "Shu", "Liang", "Jin", "Tian", "Qi", "Zen", "Yang"}

AsciiAlnum == {"7"}

\* the character class [一-龥A-Za-z0-9] of the unit_name pattern
UnitClass(c) == c \in CJK \cup AsciiAlnum

\* "." of Python's re without DOTALL: any character but the newline
Dot(c) == c # "\n"

RECURSIVE Join(_)
Join(s) == IF s = <<>> THEN "" ELSE Head(s) \o Join(Tail(s))

\* words of the source's patterns and examples
JieDao == <<"Jie", "Dao">>                        \* 街道
BanShiChu == <<"Ban", "Shi", "Chu">>              \* 办事处
ChuLi == <<"Chu", "Li">>                          \* 处理
DuoShao == <<"Duo", "Shao">>                      \* 多少
AnJian == <<"An", "Jian">>                        \* 案件
BaoLuLaJi == <<"Bao", "Lu", "La", "Ji">>          \* 暴露垃圾
ZhuYaoLaiYuan == <<"Zhu", "Yao", "Lai", "Yuan">>  \* 主要来源
TongJi == <<"Tong", "Jii">>                       \* 统计
ShiJian == <<"Shi", "Jian">>                      \* 事件
ShuLiang == <<"Shu", "Liang">>                    \* 数量
PingShan == <<"Ping", "Shan">>                    \* 坪山
ZheGeYue == <<"Zhe", "Ge", "Yue">>                \* 这个月

\* ------------------------------------------------------------ regex search

Lit(w) == [kind |-> "lit", chars |-> w]
DotStar == [kind |-> "dotstar", chars |-> <<>>]

HasAt(q, i, w) ==
    /\ i + Len(w) - 1 <= Len(q)
    /\ \A k \in 1..Len(w) : q[i + k - 1] = w[k]

\* the pattern elements from k on match q from position i (some backtracking
\* choice of the ".*" lengths succeeds)
RECURSIVE MatchAt(_, _, _, _)
MatchAt(pat, k, q, i) ==
    IF k > Len(pat) THEN TRUE
    ELSE IF pat[k].kind = "lit"
         THEN HasAt(q, i, pat[k].chars) /\ MatchAt(pat, k + 1, q, i + Len(pat[k].chars))
         ELSE \E j \in i..(Len(q) + 1) :
                  /\ \A x \in i..(j - 1) : Dot(q[x])
                  /\ MatchAt(pat, k + 1, q, j)

\* re.search(pattern, question) is not None
ReSearch(pat, q) == \E i \in 1..(Len(q) + 1) : MatchAt(pat, 1, q, i)

\* ------------------------------------------------------- _default_time_filter

DigitChars == <<"0", "1", "2", "3", "4", "5", "6", "7", "8", "9">>
DigitVal(c) == (CHOOSE n \in 1..10 : DigitChars[n] = c) - 1

\* strftime's zero-padded decimal field of width w
RECURSIVE Zfill(_, _)
Zfill(n, w) == IF w = 0 THEN <<>> ELSE Zfill(n \div 10, w - 1) \o <<DigitChars[(n % 10) + 1]>>

RECURSIVE ParseInt(_)
ParseInt(ds) ==
    IF ds = <<>> THEN 0 ELSE 10 * ParseInt(SubSeq(ds, 1, Len(ds) - 1)) + DigitVal(ds[Len(ds)])

IsLeap(y) == (y % 4 = 0 /\ y % 100 # 0) \/ y % 400 = 0

DaysInMonth(y, m) ==
    IF m = 2 THEN (IF IsLeap(y) THEN 29 ELSE 28)
    ELSE IF m \in {4, 6, 9, 11} THEN 30 ELSE 31

Date(y, m, d) == [y |-> y, m |-> m, d |-> d]

\* date + timedelta(days=n), n >= 0
RECURSIVE AddDays(_, _)
AddDays(dt, n) ==
    IF dt.d + n <= DaysInMonth(dt.y, dt.m)
    THEN Date(dt.y, dt.m, dt.d + n)
    ELSE AddDays(IF dt.m = 12 THEN Date(dt.y + 1, 1, 1) ELSE Date(dt.y, dt.m + 1, 1),
                 n - (DaysInMonth(dt.y, dt.m) - dt.d + 1))

ReplaceDay(dt, d) == Date(dt.y, dt.m, d)

\* strftime("%Y-%m-%d")
StrfYmd(dt) == Zfill(dt.y, 4) \o <<"-">> \o Zfill(dt.m, 2) \o <<"-">> \o Zfill(dt.d, 2)

\* strptime(s, "%Y-%m-%d") of a ten-character date
StrpYmd(s) == Date(ParseInt(SubSeq(s, 1, 4)), ParseInt(SubSeq(s, 6, 7)), ParseInt(SubSeq(s, 9, 10)))

\* variant: the upper bound is taken 28 days after the first of the month
DefaultTimeFilter28(t) ==
    LET first_day == Zfill(t.y, 4) \o <<"-">> \o Zfill(t.m, 2) \o <<"-", "0", "1">>
        next_first == StrfYmd(ReplaceDay(AddDays(StrpYmd(first_day), 28), 1))
    IN  "CREATE_TIME >= '" \o Join(first_day) \o "' AND CREATE_TIME < '" \o Join(next_first) \o "'"

\* _default_time_filter() when date.today() is t
DefaultTimeFilter(t) ==
    LET first_day == Zfill(ReplaceDay(t, 1).y, 4) \o <<"-">> \o Zfill(ReplaceDay(t, 1).m, 2)
                         \o <<"-", "0", "1">>
        next_month == SubSeq(first_day, 1, 7) \o <<"-", "0", "1">>
        next_month_dt == AddDays(StrpYmd(next_month), 32)
        next_first == StrfYmd(ReplaceDay(next_month_dt, 1))
    IN  "CREATE_TIME >= '" \o Join(first_day) \o "' AND CREATE_TIME < '" \o Join(next_first) \o "'"

\* ------------------------------------------------------------ _build_assets

Text(s) == [kind |-> "lit", text |-> s]
Slot(name) == [kind |-> "ph", text |-> name]

\* templates of _build_assets, in registration order
Templates ==
    << [intent |-> "data_query",
        pattern |-> <<DotStar, Lit(JieDao), DotStar, Lit(ChuLi), DotStar, Lit(DuoShao),
                      DotStar, Lit(AnJian)>>,
        sql_template |-> <<Text("SELECT COUNT(*) AS AnJianShuLiang FROM pingshan_stat_info WHERE first_unit_name LIKE '%"),
                           Slot("unit_name"), Text("%' AND "), Slot("time_filter")>>,
        required_params |-> <<"unit_name">>,
        optional_params |-> <<"time_filter">>],
       [intent |-> "data_query",
        pattern |-> <<DotStar, Lit(BaoLuLaJi), DotStar, Lit(ZhuYaoLaiYuan)>>,
        sql_template |-> <<Text("SELECT EVENT_SRC_NAME AS ShiJianLaiYuan, COUNT(*) AS ShuLiang FROM pingshan_stat_info WHERE "),
                           Slot("event_filter"),
                           Text(" GROUP BY EVENT_SRC_NAME ORDER BY ShuLiang DESC")>>,
        required_params |-> <<"event_filter">>,
        optional_params |-> <<>>],
       [intent |-> "data_query",
        pattern |-> <<Lit(TongJi), DotStar, Lit(ShiJian), DotStar, Lit(ShuLiang)>>,
        sql_template |-> <<Text("SELECT SUB_TYPE_NAME AS ShiJianLeiXing, COUNT(*) AS ShiJianShuLiang FROM pingshan_stat_info WHERE SUB_TYPE_NAME IS NOT NULL AND SUB_TYPE_NAME <> '' GROUP BY SUB_TYPE_NAME ORDER BY ShiJianShuLiang DESC")>>,
        required_params |-> <<>>,
        optional_params |-> <<>>] >>

\* QuestionTemplate objects that are not in the catalog: _derive_params,
\* enrich_context and build_sql take whatever template they are handed, and the
\* dict passed to app.invoke may carry one under "template"
CallerTemplates ==
    << [intent |-> "report",
        pattern |-> <<Lit(TongJi)>>,
        sql_template |-> <<Text("SELECT * FROM pingshan_stat_info WHERE "), Slot("time_filter"),
                           Text(" AND first_unit_name = '"), Slot("unit_name"), Text("'")>>,
        required_params |-> <<"time_filter", "unit_name">>,
        optional_params |-> <<>>],
       [intent |-> "report",
        pattern |-> <<Lit(TongJi)>>,
        sql_template |-> <<Text("SELECT 1 FROM pingshan_stat_info WHERE "), Slot("time_filter")>>,
        required_params |-> <<>>,
        optional_params |-> <<"unit_name", "event_filter", "time_filter">>] >>

\* a template is held by its position in this list; 0 is None
AnyTemplates == Templates \o CallerTemplates

\* ---------------------------------------------------------- _detect_template

\* variant: the scan keeps going and the last matching template is returned
RECURSIVE DetectLast(_, _, _)
DetectLast(q, templates, i) ==
    IF i < 1 THEN 0
    ELSE IF ReSearch(templates[i].pattern, q) THEN i ELSE DetectLast(q, templates, i - 1)

DetectTemplateLast(q, templates) == DetectLast(q, templates, Len(templates))

\* the for loop of _detect_template from index i on; 0 is None
RECURSIVE DetectFrom(_, _, _)
DetectFrom(q, templates, i) ==
    IF i > Len(templates) THEN 0
    ELSE IF ReSearch(templates[i].pattern, q) THEN i ELSE DetectFrom(q, templates, i + 1)

DetectTemplate(q, templates) == DetectFrom(q, templates, 1)

\* ------------------------------------------------------------ _derive_params

InSeq(x, s) == \E i \in 1..Len(s) : s[i] = x

EmptyMap == [k \in {} |-> ""]
Put(f, key, v) == [k \in (DOMAIN f) \cup {key} |-> IF k = key THEN v ELSE f[k]]

UnitSuffix == JieDao \o BanShiChu   \* 街道办事处

\* positions s where the suffix can start for a match that starts at i:
\* q[i..s-1] is a non-empty run of class characters followed by the suffix
UnitSuffixStarts(q, i) ==
    {s \in (i + 1)..Len(q) : HasAt(q, s, UnitSuffix) /\ \A x \in i..(s - 1) : UnitClass(q[x])}

UnitStarts(q) == {i \in 1..Len(q) : UnitSuffixStarts(q, i) # {}}

SetMin(S) == CHOOSE x \in S : \A y \in S : x <= y
SetMax(S) == CHOOSE x \in S : \A y \in S : x >= y

\* re.search(r"([一-龥A-Za-z0-9]+街道办事处)", question):
\* <<>> when there is no match, else group(1) of the leftmost match, its "+" greedy
UnitSearch(q) ==
    IF UnitStarts(q) = {} THEN <<>>
    ELSE LET i == SetMin(UnitStarts(q))
             s == SetMax(UnitSuffixStarts(q, i))
         IN  SubSeq(q, i, s + Len(UnitSuffix) - 1)

EventFilter ==
    "(SUB_TYPE_NAME LIKE '%BaoLuLaJi%' OR THIRD_TYPE_NAME LIKE '%BaoLuLaJi%' OR MAX_EVENT_TYPE_NAME LIKE '%BaoLuLaJi%' OR EVENT_DESC LIKE '%BaoLuLaJi%')"

\* variant: without a match unit_name is set to the empty string
DeriveParamsEmptyUnit(q, tpl, t) ==
    LET p0 == EmptyMap
        p1 == IF InSeq("unit_name", tpl.required_params) \/ InSeq("unit_name", tpl.optional_params)
              THEN Put(p0, "unit_name", Join(UnitSearch(q))) ELSE p0
        p2 == IF InSeq("event_filter", tpl.required_params)
              THEN Put(p1, "event_filter", EventFilter) ELSE p1
        p3 == IF InSeq("time_filter", tpl.optional_params)
              THEN Put(p2, "time_filter", DefaultTimeFilter(t)) ELSE p2
    IN  p3

\* _derive_params(question, template) when date.today() is t
DeriveParams(q, tpl, t) ==
    LET p0 == EmptyMap
        p1 == IF (InSeq("unit_name", tpl.required_params) \/ InSeq("unit_name", tpl.optional_params))
                 /\ UnitSearch(q) # <<>>
              THEN Put(p0, "unit_name", Join(UnitSearch(q))) ELSE p0
        p2 == IF InSeq("event_filter", tpl.required_params)
              THEN Put(p1, "event_filter", EventFilter) ELSE p1
        p3 == IF InSeq("time_filter", tpl.optional_params)
              THEN Put(p2, "time_filter", DefaultTimeFilter(t)) ELSE p2
    IN  p3

\* --------------------------------------------------------------- _render_sql

RECURSIVE SeedMap(_)
SeedMap(names) == IF names = <<>> THEN EmptyMap ELSE Put(SeedMap(Tail(names)), Head(names), "")

\* variant: {**b, **a}, the empty seed written over the supplied values
OverlaySeedWins(a, b) == [k \in (DOMAIN a) \cup (DOMAIN b) |-> IF k \in DOMAIN a THEN a[k] ELSE b[k]]

\* {**a, **b}
Overlay(a, b) == [k \in (DOMAIN a) \cup (DOMAIN b) |-> IF k \in DOMAIN b THEN b[k] ELSE a[k]]

RECURSIVE FormatParts(_, _)
FormatParts(parts, filled) ==
    IF parts = <<>> THEN ""
    ELSE (IF Head(parts).kind = "lit" THEN Head(parts).text ELSE filled[Head(parts).text])
         \o FormatParts(Tail(parts), filled)

\* _render_sql(template, params): str.format raises KeyError for a placeholder
\* that is neither declared nor supplied
RenderSql(tpl, params) ==
    LET filled == Overlay(SeedMap(tpl.required_params \o tpl.optional_params), params)
        unknown == {i \in 1..Len(tpl.sql_template) :
                       tpl.sql_template[i].kind = "ph"
                       /\ tpl.sql_template[i].text \notin DOMAIN filled}
    IN  IF unknown # {}
        THEN [raised |-> "KeyError", sql |-> ""]
        ELSE [raised |-> "none", sql |-> FormatParts(tpl.sql_template, filled)]

\* variant: the declared names are seeded into the caller's dict
\* (params.setdefault(key, "")) before formatting
RenderSeedsInPlace(tpl, params) ==
    [template |-> tpl,
     params |-> Overlay(SeedMap(tpl.required_params \o tpl.optional_params), params)]

\* the template and the params dict _render_sql was called with, as it leaves
\* them: filled is a new dict, required_params + optional_params a new list
RenderLeaves(tpl, params) == [template |-> tpl, params |-> params]

\* ------------------------------------------- SmartDataEngine.execute_sql

MockRow == [ShiLiZiDuan |-> "value", count |-> 42]   \* {"示例字段": "value", "count": 42}
StoreRow(i) == [ShiLiZiDuan |-> "row", count |-> i]  \* the i-th row the store returns

NoConfigNote == "WeiTiGongShuJuKuPeiZhi, YiFanHuiMoNiJieGuo."            \* 未提供数据库配置，已返回模拟结果。
NoDriverNote == "WeiJianCeDao mysql-connector-python, YiFanHuiMoNiJieGuo."  \* 未检测到 mysql-connector-python，已返回模拟结果。
SuccessNote == "YiLianJie MySQL FanHuiZhenShiJieGuo."                    \* 已连接 MySQL 返回真实结果。
ErrorNotePrefix == "ChaXunShiBai, HuiTuiDaoMoNiMoShi: "                  \* 查询失败，回退到模拟模式:

NoResult == [status |-> "", sql |-> "", rows |-> <<>>, note |-> ""]

\* nothing done yet: calls of execute_sql, driver checks, connection attempts,
\* connections acquired / open / closed, queries submitted, and what the store
\* did in the attempt (the step that threw, the rows fetchall returned)
NoGateway ==
    [calls |-> 0, driverChecks |-> 0, connects |-> 0, acquired |-> 0, open |-> 0,
     closes |-> 0, queries |-> 0, failAt |-> "", fetched |-> <<>>]

\* what the runtime environment holds for the driver:
\*   "installed"      mysql.connector can be imported
\*   "no_connector"   a package mysql exists without the submodule connector:
\*                    importlib.util.find_spec("mysql.connector") returns None
\*   "not_installed"  no package mysql at all: find_spec imports the parent
\*                    package first and raises ModuleNotFoundError
Drivers == {"installed", "no_connector", "not_installed"}

\* what the store does during one connection-and-query attempt
FailPoints == {"none", "connect", "cursor", "execute", "fetchall"}

RECURSIVE RowsUpTo(_)
RowsUpTo(n) == IF n = 0 THEN <<>> ELSE RowsUpTo(n - 1) \o <<StoreRow(n)>>

StoreBehaviours ==
    {[failAt |-> f, rows |-> RowsUpTo(n)] : f \in FailPoints \ {"none"}, n \in {0}}
    \cup {[failAt |-> "none", rows |-> RowsUpTo(n)] : n \in 0..MaxRows}

MockResult(sql, note) == [status |-> "mock", sql |-> sql, rows |-> <<MockRow>>, note |-> note]

\* variant: a failure answers with the mock row
ErrorResultAsMock(sql, exc) ==
    [status |-> "error", sql |-> sql, rows |-> <<MockRow>>, note |-> ErrorNotePrefix \o exc]

\* the except branch of execute_sql
ErrorResult(sql, exc) ==
    [status |-> "error", sql |-> sql, rows |-> <<>>, note |-> ErrorNotePrefix \o exc]

SuccessResult(sql, rows) == [status |-> "success", sql |-> sql, rows |-> rows, note |-> SuccessNote]

\* str(exc) of the exception a failing store step throws
ExcText(step) == step \o " failed"

\* the try body: connect, cursor, execute, fetchall, up to the first that throws.
\* connection tells whether the local variable connection was assigned.
TryBody(beh, gw) ==
    LET g1 == [gw EXCEPT !.connects = @ + 1, !.failAt = beh.failAt]
        g2 == [g1 EXCEPT !.open = @ + 1, !.acquired = @ + 1]
        g3 == [g2 EXCEPT !.queries = @ + 1]
        g4 == [g3 EXCEPT !.fetched = beh.rows]
    IN  IF beh.failAt = "connect"
        THEN [exc |-> ExcText("connect"), connection |-> FALSE, gw |-> g1, rows |-> <<>>]
        ELSE IF beh.failAt = "cursor"
        THEN [exc |-> ExcText("cursor"), connection |-> TRUE, gw |-> g2, rows |-> <<>>]
        ELSE IF beh.failAt = "execute"
        THEN [exc |-> ExcText("execute"), connection |-> TRUE, gw |-> g3, rows |-> <<>>]
        ELSE IF beh.failAt = "fetchall"
        THEN [exc |-> ExcText("fetchall"), connection |-> TRUE, gw |-> g3, rows |-> <<>>]
        ELSE [exc |-> "", connection |-> TRUE, gw |-> g4, rows |-> beh.rows]

\* variant: the connection is closed at the end of the try body only
FinallyOnSuccess(r) ==
    IF r.connection /\ r.exc = ""
    THEN [r.gw EXCEPT !.open = @ - 1, !.closes = @ + 1]
    ELSE r.gw

\* the finally clause: if connection is not None: connection.close()
Finally(r) ==
    IF r.connection
    THEN [r.gw EXCEPT !.open = @ - 1, !.closes = @ + 1]
    ELSE r.gw

\* execute_sql after the configuration check
ExecuteSqlConfigured(sql, drv, beh, gw) ==
    LET g0 == [gw EXCEPT !.driverChecks = @ + 1]
    IN  IF drv = "not_installed"
        THEN [raised |-> "ModuleNotFoundError", result |-> NoResult, gw |-> g0]
        ELSE IF drv = "no_connector"
        THEN [raised |-> "none", result |-> MockResult(sql, NoDriverNote), gw |-> g0]
        ELSE LET r == TryBody(beh, g0)
             IN  [raised |-> "none",
                  result |-> IF r.exc = "" THEN SuccessResult(sql, r.rows)
                             ELSE ErrorResult(sql, r.exc),
                  gw |-> Finally(r)]

\* variant: the configuration is never looked at
ExecuteSqlSkipConfig(sql, cfg, drv, beh, gw) ==
    ExecuteSqlConfigured(sql, drv, beh, [gw EXCEPT !.calls = @ + 1])

\* SmartDataEngine.execute_sql(sql): the exception that escapes it (or "none"),
\* the dict it returns and what it did to the store
ExecuteSql(sql, cfg, drv, beh, gw) ==
    LET g0 == [gw EXCEPT !.calls = @ + 1]
    IN  IF ~cfg
        THEN [raised |-> "none", result |-> MockResult(sql, NoConfigNote), gw |-> g0]
        ELSE ExecuteSqlConfigured(sql, drv, beh, g0)

\* ------------------------------------------------------------------ QAState

Keys == {"question", "intent", "template", "params", "sql", "result", "logs"}

\* the dict app.invoke is called with: {"question": q, "logs": []}
InitialState(q) ==
    [keys |-> {"question", "logs"}, question |-> q, intent |-> "", template |-> 0,
     params |-> EmptyMap, sql |-> "", result |-> NoResult, logs |-> <<>>]

\* state.get(...) with the defaults the nodes use
GetLogs(st) == IF "logs" \in st.keys THEN st.logs ELSE <<>>
GetTemplate(st) == IF "template" \in st.keys THEN st.template ELSE 0
GetParams(st) == IF "params" \in st.keys THEN st.params ELSE EmptyMap
GetSql(st) == IF "sql" \in st.keys THEN st.sql ELSE ""
GetResult(st) == IF "result" \in st.keys THEN st.result ELSE NoResult

\* repr of a list of str, e.g. ['unit_name']
RECURSIVE ListItems(_)
ListItems(names) ==
    IF names = <<>> THEN ""
    ELSE "'" \o Head(names) \o "'" \o (IF Len(names) > 1 THEN ", " ELSE "") \o ListItems(Tail(names))

ListRepr(names) == "[" \o ListItems(names) \o "]"

FallbackSql == "SELECT COUNT(*) AS ShiJianShuLiang FROM pingshan_stat_info"

LogIntentDone == "WanChengYiTuShiBie"                               \* 完成意图识别
LogNoTemplate == "WeiPiPeiDaoMuBan, MoRenTongJiShiJianShuLiang."    \* 未匹配到模板，默认统计事件数量。
LogMissing(missing) == "QueShiCanShu " \o ListRepr(missing) \o ", ChangShiMoRenTianChong"  \* 缺失参数 [...]，尝试默认填充
LogContextDone == "WanChengShangXiaWenBuQuan"                       \* 完成上下文补全
LogFallbackSql == "ShiYongDouDi SQL"                                \* 使用兜底 SQL
LogSqlDone == "WanCheng SQL ShengCheng"                             \* 完成 SQL 生成
LogExecuteDone == "WanCheng SQL ZhiXing"                            \* 完成 SQL 执行

\* 执行状态: {status}。返回 {len(rows)} 行。
Summary(status, n) == "ZhiXingZhuangTai: " \o status \o ". FanHui " \o ToString(n) \o " Hang."

\* [p for p in tpl.required_params if p not in params or not params[p]]
RECURSIVE Missing(_, _)
Missing(names, params) ==
    IF names = <<>> THEN <<>>
    ELSE (IF Head(names) \notin DOMAIN params \/ params[Head(names)] = ""
          THEN <<Head(names)>> ELSE <<>>) \o Missing(Tail(names), params)

\* ------------------------------------------------------- the graph's nodes

\* detect_intent(state) when date.today() is t
DetectIntentNode(st, t) ==
    LET tpl == DetectTemplate(st.question, Templates)
        logs == GetLogs(st) \o <<LogIntentDone>>
    IN  IF tpl = 0
        THEN [st EXCEPT !.keys = @ \cup {"logs", "intent"},
                        !.logs = logs \o <<LogNoTemplate>>,
                        !.intent = "fallback"]
        ELSE [st EXCEPT !.keys = @ \cup {"intent", "template", "params", "logs"},
                        !.intent = Templates[tpl].intent,
                        !.template = tpl,
                        !.params = DeriveParams(st.question, Templates[tpl], t),
                        !.logs = logs]

\* variant: time_filter is filled whenever the params do not hold it
EnrichContextNodeFillsAbsent(st, t) ==
    LET tpl == GetTemplate(st)
        missing == IF tpl # 0 THEN Missing(AnyTemplates[tpl].required_params, GetParams(st)) ELSE <<>>
        logs1 == IF missing # <<>> THEN GetLogs(st) \o <<LogMissing(missing)>> ELSE GetLogs(st)
        params1 == IF "time_filter" \notin DOMAIN GetParams(st)
                   THEN Put(GetParams(st), "time_filter", DefaultTimeFilter(t))
                   ELSE GetParams(st)
    IN  [st EXCEPT !.keys = @ \cup {"params", "logs"},
                   !.params = params1,
                   !.logs = logs1 \o <<LogContextDone>>]

\* enrich_context(state) when date.today() is t
EnrichContextNode(st, t) ==
    LET tpl == GetTemplate(st)
        missing == IF tpl # 0 THEN Missing(AnyTemplates[tpl].required_params, GetParams(st)) ELSE <<>>
        logs1 == IF missing # <<>> THEN GetLogs(st) \o <<LogMissing(missing)>> ELSE GetLogs(st)
        params1 == IF InSeq("time_filter", missing)
                   THEN Put(GetParams(st), "time_filter", DefaultTimeFilter(t))
                   ELSE GetParams(st)
    IN  [st EXCEPT !.keys = @ \cup {"params", "logs"},
                   !.params = params1,
                   !.logs = logs1 \o <<LogContextDone>>]

\* build_sql(state): the exception it raises (or "none") and the state it returns
BuildSqlNode(st) ==
    LET tpl == GetTemplate(st)
        r == RenderSql(AnyTemplates[tpl], GetParams(st))
    IN  IF tpl = 0
        THEN [raised |-> "none",
              state |-> [st EXCEPT !.keys = @ \cup {"sql", "logs"},
                                   !.sql = FallbackSql,
                                   !.logs = GetLogs(st) \o <<LogFallbackSql>>]]
        ELSE IF r.raised # "none"
        THEN [raised |-> r.raised, state |-> st]
        ELSE [raised |-> "none",
              state |-> [st EXCEPT !.keys = @ \cup {"sql", "logs"},
                                   !.sql = r.sql,
                                   !.logs = GetLogs(st) \o <<LogSqlDone>>]]

\* execute(state): engine.execute_sql(state.get("sql", "")) and the state update
ExecuteNode(st, cfg, drv, beh, gw) ==
    LET r == ExecuteSql(GetSql(st), cfg, drv, beh, gw)
    IN  IF r.raised # "none"
        THEN [raised |-> r.raised, state |-> st, gw |-> r.gw]
        ELSE [raised |-> "none",
              state |-> [st EXCEPT !.keys = @ \cup {"result", "logs"},
                                   !.result = r.result,
                                   !.logs = GetLogs(st) \o <<LogExecuteDone>>],
              gw |-> r.gw]

\* variant: respond returns a log that holds the summary only
RespondNodeSummaryOnly(st) ==
    LET status == IF "result" \in st.keys THEN st.result.status ELSE "mock"
        rows == GetResult(st).rows
    IN  [st EXCEPT !.keys = @ \cup {"logs"},
                   !.logs = <<Summary(status, Len(rows))>>]

\* respond(state); a missing result counts as status "mock" with no rows
RespondNode(st) ==
    LET status == IF "result" \in st.keys THEN st.result.status ELSE "mock"
        rows == GetResult(st).rows
    IN  [st EXCEPT !.keys = @ \cup {"logs"},
                   !.logs = GetLogs(st) \o <<Summary(status, Len(rows))>>]

\* the dict enrich_context was called with, as it is when enrich_context has
\* returned: logs = state.get("logs", []) and params = state.get("params", {})
\* are the input's own list and dict when the keys are present, and
\* logs.append / params[...] = ... change them in place
EnrichContextInput(st, t) ==
    LET out == EnrichContextNode(st, t)
    IN  [st EXCEPT !.logs = IF "logs" \in st.keys THEN out.logs ELSE @,
                   !.params = IF "params" \in st.keys THEN out.params ELSE @]

\* the dict a node was called with, as the node leaves it; the other four
\* nodes build their lists with logs + [...] and their dicts with {**state, ...}
InputAfter(node, st, t) == IF node = "enrich_context" THEN EnrichContextInput(st, t) ELSE st

\* ----------------------------------------------------------------- inputs

Comma == <<",">>
Newline == <<"\n">>
Ascii == <<"7">>

\* words the generated questions are made of
Tokens ==
    {JieDao, BanShiChu, ChuLi, DuoShao, AnJian, BaoLuLaJi, ZhuYaoLaiYuan, TongJi,
     ShiJian, ShuLiang, PingShan, Comma, Newline, Ascii}

MatchTokens ==
    {JieDao, ChuLi, DuoShao, AnJian, BaoLuLaJi, ZhuYaoLaiYuan, TongJi, ShiJian,
     ShuLiang, PingShan, Newline}

RECURSIVE WordSeqs(_, _)
WordSeqs(tokens, n) ==
    IF n = 0 THEN {<<>>}
    ELSE LET shorter == WordSeqs(tokens, n - 1)
         IN  shorter \cup {q \o w : q \in shorter, w \in tokens}

\* 这个月坪山街道办事处处理了多少案件
Example1 == ZheGeYue \o PingShan \o JieDao \o BanShiChu \o ChuLi \o <<"Le">> \o DuoShao \o AnJian
\* 暴露垃圾事件的主要来源是什么
Example2 == BaoLuLaJi \o ShiJian \o <<"De">> \o ZhuYaoLaiYuan \o <<"Shih", "Shen", "Me">>
\* 今天天气怎么样
Example3 == <<"Jin", "Tian", "Tian", "Qi", "Zen", "Me", "Yang">>
\* 统计各类型事件的数量
Example4 == TongJi \o <<"Gee", "Lei", "Xing">> \o ShiJian \o <<"De">> \o ShuLiang
\* 街道处理了多少案件
Example5 == JieDao \o ChuLi \o <<"Le">> \o DuoShao \o AnJian
\* 这个月，坪山街道办事处处理了多少案件
Example6 == ZheGeYue \o Comma \o PingShan \o JieDao \o BanShiChu \o ChuLi \o <<"Le">> \o DuoShao \o AnJian
\* 统计坪山街道办事处处理了多少暴露垃圾案件的主要来源事件数量
Example7 == TongJi \o PingShan \o JieDao \o BanShiChu \o ChuLi \o <<"Le">> \o DuoShao \o BaoLuLaJi
                \o AnJian \o <<"De">> \o ZhuYaoLaiYuan \o ShiJian \o ShuLiang
\* 街道处理 / 多少案件 on two lines
Example8 == JieDao \o ChuLi \o Newline \o DuoShao \o AnJian
\* 统计暴露垃圾事件主要来源的数量
Example9 == TongJi \o BaoLuLaJi \o ShiJian \o ZhuYaoLaiYuan \o <<"De">> \o ShuLiang

Examples == {Example1, Example2, Example3, Example4, Example5, Example6, Example7, Example8, Example9}

Questions == Examples \cup WordSeqs(Tokens, MaxQTokens)
MatchQuestions == Examples \cup WordSeqs(MatchTokens, MaxMatchTokens)

\* the invocation dates of the pipeline specification: a leap day and a year's last day
PipelineDates == {Date(2024, 2, 29), Date(2024, 12, 31)}

AllDates ==
    {Date(y, m, d) : y \in 2023..(2023 + MaxYears), m \in 1..12, d \in 1..31}
    \ {dt \in [y : 2023..(2023 + MaxYears), m : 1..12, d : 29..31] : dt.d > DaysInMonth(dt.y, dt.m)}

NoProbe == [fn |-> "none", tpl |-> 0, text |-> ""]

NoArg == [node |-> "", before |-> InitialState(<<>>), after |-> InitialState(<<>>)]

\* ------------------------------------------------- the compiled graph (Spec)

Init ==
    /\ question \in Questions
    /\ today \in PipelineDates
    /\ dbConfig \in BOOLEAN
    /\ driver \in Drivers
    /\ state = InitialState(question)
    /\ pc = "detect_intent"
    /\ trace = <<>>
    /\ raised = "none"
    /\ gateway = NoGateway
    /\ probe = NoProbe
    /\ arg = NoArg
    /\ runs = <<>>
    /\ heap = <<>>

detect_intent ==
    /\ pc = "detect_intent"
    /\ state' = DetectIntentNode(state, today)
    /\ pc' = "enrich_context"
    /\ trace' = Append(trace, "detect_intent")
    /\ arg' = [node |-> "detect_intent", before |-> state, after |-> InputAfter("detect_intent", state, today)]
    /\ UNCHANGED <<question, today, dbConfig, driver, raised, gateway, probe, runs, heap>>

enrich_context ==
    /\ pc = "enrich_context"
    /\ state' = EnrichContextNode(state, today)
    /\ pc' = "build_sql"
    /\ trace' = Append(trace, "enrich_context")
    /\ arg' = [node |-> "enrich_context", before |-> state, after |-> InputAfter("enrich_context", state, today)]
    /\ UNCHANGED <<question, today, dbConfig, driver, raised, gateway, probe, runs, heap>>

build_sql ==
    /\ pc = "build_sql"
    /\ LET r == BuildSqlNode(state)
       IN  /\ state' = r.state
           /\ raised' = r.raised
           /\ pc' = IF r.raised = "none" THEN "execute" ELSE "raised"
    /\ trace' = Append(trace, "build_sql")
    /\ arg' = [node |-> "build_sql", before |-> state, after |-> InputAfter("build_sql", state, today)]
    /\ UNCHANGED <<question, today, dbConfig, driver, gateway, probe, runs, heap>>

execute ==
    /\ pc = "execute"
    /\ \E beh \in StoreBehaviours :
           LET r == ExecuteNode(state, dbConfig, driver, beh, gateway)
           IN  /\ state' = r.state
               /\ raised' = r.raised
               /\ gateway' = r.gw
               /\ pc' = IF r.raised = "none" THEN "respond" ELSE "raised"
    /\ trace' = Append(trace, "execute")
    /\ arg' = [node |-> "execute", before |-> state, after |-> InputAfter("execute", state, today)]
    /\ UNCHANGED <<question, today, dbConfig, driver, probe, runs, heap>>

respond ==
    /\ pc = "respond"
    /\ state' = RespondNode(state)
    /\ pc' = "END"
    /\ trace' = Append(trace, "respond")
    /\ arg' = [node |-> "respond", before |-> state, after |-> InputAfter("respond", state, today)]
    /\ UNCHANGED <<question, today, dbConfig, driver, raised, gateway, probe, runs, heap>>

Next == detect_intent \/ enrich_context \/ build_sql \/ execute \/ respond

Spec == Init /\ [][Next]_vars

\* app.invoke runs the node that is next for as long as there is one: the graph
\* is a chain of plain function calls in one thread (SpecLive)
InitLive ==
    /\ question \in Examples
    /\ today = Date(2024, 12, 31)
    /\ dbConfig \in BOOLEAN
    /\ driver \in Drivers
    /\ state = InitialState(question)
    /\ pc = "detect_intent"
    /\ trace = <<>>
    /\ raised = "none"
    /\ gateway = NoGateway
    /\ probe = NoProbe
    /\ arg = NoArg
    /\ runs = <<>>
    /\ heap = <<>>

\* some node returns or raises: Next is enabled exactly when a node is next,
\* and every step of Next moves pc
NodeStep == /\ pc \notin {"END", "raised"}
            /\ pc' \in {"enrich_context", "build_sql", "execute", "respond", "END", "raised"}
            /\ pc' # pc

SpecLive == InitLive /\ [][Next]_vars /\ WF_pc(NodeStep)

\* ------------------- the graph invoked with any QAState of the caller (SpecCaller)
\* QAState is total=False: besides "question" the dict passed to app.invoke may
\* hold any of the other keys.  Here it may hold "template", "params",
\* "intent" and "logs".

CallerQuestions == {Example1, Example3, Example5}

CallerParams ==
    {EmptyMap,
     Put(EmptyMap, "time_filter", ""),
     Put(EmptyMap, "unit_name", "U"),
     Put(Put(EmptyMap, "time_filter", "T"), "unit_name", "U")}

\* the dicts a caller may pass for question q
CallerStates(q) ==
    {[InitialState(q) EXCEPT !.keys = {"question"} \cup ks,
                             !.template = IF "template" \in ks THEN k ELSE 0,
                             !.params = IF "params" \in ks THEN p ELSE EmptyMap,
                             !.intent = IF "intent" \in ks THEN "fallback" ELSE ""] :
        ks \in SUBSET {"template", "params", "intent", "logs"},
        k \in {1, 4, 5}, p \in CallerParams}

InitCaller ==
    /\ question \in CallerQuestions
    /\ today = Date(2024, 12, 31)
    /\ dbConfig \in BOOLEAN
    /\ driver \in Drivers
    /\ state \in CallerStates(question)
    /\ pc = "detect_intent"
    /\ trace = <<>>
    /\ raised = "none"
    /\ gateway = NoGateway
    /\ probe = NoProbe
    /\ arg = NoArg
    /\ runs = <<>>
    /\ heap = <<>>

SpecCaller == InitCaller /\ [][Next]_vars

\* --------------------------------------- _detect_template alone (SpecMatch)

InitMatch ==
    /\ question \in MatchQuestions
    /\ today = Date(2024, 2, 29)
    /\ dbConfig = FALSE
    /\ driver = "installed"
    /\ state = InitialState(question)
    /\ pc = "call"
    /\ trace = <<>>
    /\ raised = "none"
    /\ gateway = NoGateway
    /\ probe = NoProbe
    /\ arg = NoArg
    /\ runs = <<>>
    /\ heap = <<>>

ApplyDetectTemplate ==
    /\ pc = "call"
    /\ probe' = [fn |-> "_detect_template", tpl |-> DetectTemplate(question, Templates), text |-> ""]
    /\ pc' = "returned"
    /\ UNCHANGED <<question, today, dbConfig, driver, state, trace, raised, gateway, arg, runs, heap>>

NextMatch == ApplyDetectTemplate

SpecMatch == InitMatch /\ [][NextMatch]_vars

\* ------------------------------------- _default_time_filter alone (SpecTime)

InitTime ==
    /\ question = <<>>
    /\ today \in AllDates
    /\ dbConfig = FALSE
    /\ driver = "installed"
    /\ state = InitialState(question)
    /\ pc = "call"
    /\ trace = <<>>
    /\ raised = "none"
    /\ gateway = NoGateway
    /\ probe = NoProbe
    /\ arg = NoArg
    /\ runs = <<>>
    /\ heap = <<>>

ApplyDefaultTimeFilter ==
    /\ pc = "call"
    /\ probe' = [fn |-> "_default_time_filter", tpl |-> 0, text |-> DefaultTimeFilter(today)]
    /\ pc' = "returned"
    /\ UNCHANGED <<question, today, dbConfig, driver, state, trace, raised, gateway, arg, runs, heap>>

NextTime == ApplyDefaultTimeFilter

SpecTime == InitTime /\ [][NextTime]_vars

\* ----------------------------------------------- _render_sql alone (SpecRender)

RenderNames == {"unit_name", "time_filter", "event_filter", "limit"}
RenderValues == {"", "U", "T"}

\* the params dicts a caller may pass: any of the names, each with any value
RenderParams == UNION {[S -> RenderValues] : S \in SUBSET RenderNames}

InitRender ==
    /\ question = <<>>
    /\ today = Date(2024, 2, 29)
    /\ dbConfig = FALSE
    /\ driver = "installed"
    /\ state = InitialState(question)
    /\ pc = "call"
    /\ trace = <<>>
    /\ raised = "none"
    /\ gateway = NoGateway
    /\ \E k \in 1..Len(Templates), p \in RenderParams :
           probe = [fn |-> "none", tpl |-> k, text |-> "",
                    template0 |-> Templates[k], template |-> Templates[k],
                    params0 |-> p, params |-> p, outs |-> <<>>]
    /\ arg = NoArg
    /\ runs = <<>>
    /\ heap = <<>>

\* _render_sql(template, params) called on the same two objects, twice in a row
ApplyRenderSql ==
    /\ pc \in {"call", "again"}
    /\ LET r == RenderSql(probe.template, probe.params)
           left == RenderLeaves(probe.template, probe.params)
       IN  probe' = [probe EXCEPT !.fn = "_render_sql",
                                  !.text = r.sql,
                                  !.outs = Append(@, r),
                                  !.template = left.template,
                                  !.params = left.params]
    /\ pc' = IF pc = "call" THEN "again" ELSE "returned"
    /\ UNCHANGED <<question, today, dbConfig, driver, state, trace, raised, gateway, arg, runs, heap>>

NextRender == ApplyRenderSql

SpecRender == InitRender /\ [][NextRender]_vars

\* ------------------------------------------ _derive_params alone (SpecDerive)

MaxDeriveTokens == 3

DeriveTokens == {PingShan, UnitSuffix, JieDao, ChuLi, Comma, Ascii}

DeriveQuestions == Examples \cup WordSeqs(DeriveTokens, MaxDeriveTokens)

InitDerive ==
    /\ question \in DeriveQuestions
    /\ today = Date(2024, 2, 29)
    /\ dbConfig = FALSE
    /\ driver = "installed"
    /\ state = InitialState(question)
    /\ pc = "call"
    /\ trace = <<>>
    /\ raised = "none"
    /\ gateway = NoGateway
    /\ \E k \in 1..Len(AnyTemplates) : probe = [fn |-> "none", tpl |-> k, params |-> EmptyMap]
    /\ arg = NoArg
    /\ runs = <<>>
    /\ heap = <<>>

ApplyDeriveParams ==
    /\ pc = "call"
    /\ probe' = [probe EXCEPT !.fn = "_derive_params",
                              !.params = DeriveParams(question, AnyTemplates[probe.tpl], today)]
    /\ pc' = "returned"
    /\ UNCHANGED <<question, today, dbConfig, driver, state, trace, raised, gateway, arg, runs, heap>>

NextDerive == ApplyDeriveParams

SpecDerive == InitDerive /\ [][NextDerive]_vars

\* ------------------------------- two invocations of one compiled graph (SpecTwo)
\* The nodes close over the same templates list and the same engine; each
\* invocation has its own QAState.  A logs list is an object: heap maps a
\* reference to the list's current content, and an invocation's state holds the
\* reference.  The caller may pass one and the same list in both initial states.

Invocations == {1, 2}

TwoQuestions == {Example1, Example3, Example5}

\* variant: detect_intent appends to the list it was given as well
LogsInPlaceDetect(node) == node \in {"detect_intent", "enrich_context"}

\* the node returns the list object it was given, appended to in place;
\* the other nodes return a new list built with logs + [...]
LogsInPlace(node) == node = "enrich_context"

SharedRef == <<0, 0>>

\* the state of invocation i as its next node reads it
View(i) == [runs[i].state EXCEPT !.logs = heap[runs[i].ref]]

InitTwo ==
    /\ question = <<>>
    /\ today = Date(2024, 12, 31)
    /\ dbConfig \in BOOLEAN
    /\ driver \in Drivers
    /\ state = InitialState(question)
    /\ pc = "invoke"
    /\ trace = <<>>
    /\ raised = "none"
    /\ gateway = NoGateway
    /\ probe = NoProbe
    /\ arg = NoArg
    /\ \E qs \in [Invocations -> TwoQuestions], shared \in BOOLEAN :
           /\ runs = [i \in Invocations |->
                         [question |-> qs[i], state |-> InitialState(qs[i]),
                          ref |-> IF shared THEN SharedRef ELSE <<i, 0>>,
                          allocs |-> 0, pc |-> "detect_intent", raised |-> "none",
                          gateway |-> NoGateway, beh |-> [failAt |-> "", rows |-> <<>>]]]
           /\ heap = IF shared THEN [r \in {SharedRef} |-> <<>>]
                     ELSE [r \in {<<i, 0>> : i \in Invocations} |-> <<>>]

\* invocation i's node has returned out: the state is replaced, and its logs
\* are either the list the node was given (changed in place) or a new list
Returned(i, node, next, out) ==
    IF LogsInPlace(node)
    THEN /\ heap' = [heap EXCEPT ![runs[i].ref] = out.logs]
         /\ runs' = [runs EXCEPT ![i].state = out, ![i].pc = next]
    ELSE /\ heap' = Put(heap, <<i, runs[i].allocs + 1>>, out.logs)
         /\ runs' = [runs EXCEPT ![i].state = out, ![i].pc = next,
                                 ![i].ref = <<i, runs[i].allocs + 1>>,
                                 ![i].allocs = @ + 1]

TwoFrame == UNCHANGED <<question, today, dbConfig, driver, state, pc, trace, raised, gateway, probe, arg>>

TwoDetectIntent(i) ==
    /\ runs[i].pc = "detect_intent"
    /\ Returned(i, "detect_intent", "enrich_context", DetectIntentNode(View(i), today))
    /\ TwoFrame

TwoEnrichContext(i) ==
    /\ runs[i].pc = "enrich_context"
    /\ Returned(i, "enrich_context", "build_sql", EnrichContextNode(View(i), today))
    /\ TwoFrame

TwoBuildSql(i) ==
    /\ runs[i].pc = "build_sql"
    /\ LET r == BuildSqlNode(View(i))
       IN  IF r.raised = "none"
           THEN Returned(i, "build_sql", "execute", r.state)
           ELSE /\ runs' = [runs EXCEPT ![i].pc = "raised", ![i].raised = r.raised]
                /\ heap' = heap
    /\ TwoFrame

TwoExecute(i) ==
    /\ runs[i].pc = "execute"
    /\ \E beh \in StoreBehaviours :
           LET r == ExecuteNode(View(i), dbConfig, driver, beh, runs[i].gateway)
               ran == [runs EXCEPT ![i].gateway = r.gw, ![i].beh = beh]
           IN  IF r.raised = "none"
               THEN /\ heap' = Put(heap, <<i, runs[i].allocs + 1>>, r.state.logs)
                    /\ runs' = [ran EXCEPT ![i].state = r.state, ![i].pc = "respond",
                                           ![i].ref = <<i, runs[i].allocs + 1>>,
                                           ![i].allocs = @ + 1]
               ELSE /\ runs' = [ran EXCEPT ![i].pc = "raised", ![i].raised = r.raised]
                    /\ heap' = heap
    /\ TwoFrame

TwoRespond(i) ==
    /\ runs[i].pc = "respond"
    /\ Returned(i, "respond", "END", RespondNode(View(i)))
    /\ TwoFrame

NextTwo ==
    \E i \in Invocations :
        \/ TwoDetectIntent(i)
        \/ TwoEnrichContext(i)
        \/ TwoBuildSql(i)
        \/ TwoExecute(i)
        \/ TwoRespond(i)

SpecTwo == InitTwo /\ [][NextTwo]_vars

\* ================================================================= claims

StageOrder == <<"detect_intent", "enrich_context", "build_sql", "execute", "respond">>

Statuses == {"success", "mock", "error"}

Finished == pc \in {"END", "raised"}

\* C1: every invocation returns a final state whose result has a status among
\* success, mock, error and a note; no exception escapes to the caller.
C1_NoExceptionEscapes ==
    /\ raised = "none"
    /\ pc # "raised"
    /\ pc = "END" => /\ "result" \in state.keys
                     /\ state.result.status \in Statuses
                     /\ state.result.note # ""

\* C2: every invocation runs detect_intent, enrich_context, build_sql, execute,
\* respond in this order, each exactly once, and then ends; none is skipped.
C2_StagesInOrderOnce ==
    /\ \E n \in 0..Len(StageOrder) : trace = SubSeq(StageOrder, 1, n)
    /\ Finished => trace = StageOrder

\* the part of C2 that holds in every state: the nodes that have run are an
\* initial part of the stage order, and an invocation that returns ran them all
StagesArePrefix ==
    /\ \E n \in 0..Len(StageOrder) : trace = SubSeq(StageOrder, 1, n)
    /\ pc = "END" => trace = StageOrder

NoPatternMatches(q) == \A i \in 1..Len(Templates) : ~ReSearch(Templates[i].pattern, q)

\* C3: for a question that matches no pattern the run is marked intent =
\* fallback, the remaining stages run with the fixed count-all query as the
\* executed query, a row-count summary is produced, and nothing is raised.
C3_FallbackCompletes ==
    (NoPatternMatches(question) /\ Finished) =>
        /\ raised = "none"
        /\ trace = StageOrder
        /\ state.intent = "fallback"
        /\ state.sql = FallbackSql
        /\ state.result.sql = FallbackSql
        /\ state.logs[Len(state.logs)] = Summary(state.result.status, Len(state.result.rows))

\* C4: with no store configuration execute_sql returns status mock with exactly
\* the one fixed example row, for every query text, and attempts neither the
\* driver check nor a connection.
C4_AbsentConfigIsMock ==
    (~dbConfig /\ pc \in {"respond", "END", "raised"}) =>
        /\ raised = "none"
        /\ gateway.calls = 1
        /\ "result" \in state.keys
        /\ state.result.status = "mock"
        /\ state.result.rows = <<MockRow>>
        /\ state.result.sql = state.sql
        /\ gateway.driverChecks = 0
        /\ gateway.connects = 0

C4_Witness ==
    /\ ~dbConfig
    /\ driver = "installed"
    /\ pc = "respond"
    /\ gateway.calls = 1
    /\ state.result.status = "mock"
    /\ state.sql # FallbackSql

\* C5: with a store configuration but no usable driver execute_sql returns
\* status mock with the fixed example row and a note other than the
\* no-configuration note; nothing is raised.
C5_DriverMissingIsMock ==
    (dbConfig /\ driver # "installed" /\ pc \in {"respond", "END", "raised"}) =>
        /\ raised = "none"
        /\ "result" \in state.keys
        /\ state.result.status = "mock"
        /\ state.result.rows = <<MockRow>>
        /\ state.result.note # NoConfigNote
        /\ state.result.note # ""

C7_ConnectionReleased ==
    /\ gateway.open = 0
    /\ gateway.closes = gateway.acquired
    /\ gateway.acquired <= gateway.connects

C7_Witness ==
    /\ gateway.acquired = 1
    /\ gateway.closes = 1
    /\ gateway.failAt = "execute"
    /\ state.result.status = "error"

\* the words a pattern asks for, in order, on one line
PatternWords ==
    << <<JieDao, ChuLi, DuoShao, AnJian>>, <<BaoLuLaJi, ZhuYaoLaiYuan>>, <<TongJi, ShiJian, ShuLiang>> >>

RECURSIVE WordsFrom(_, _, _)
WordsFrom(words, q, i) ==
    \/ words = <<>>
    \/ /\ words # <<>>
       /\ \E p \in i..Len(q) :
              /\ HasAt(q, p, Head(words))
              /\ \A x \in i..(p - 1) : q[x] # "\n"
              /\ WordsFrom(Tail(words), q, p + Len(Head(words)))

\* the words occur somewhere in q, in order, without a line break in between
Occurs(words, q) ==
    \E p \in 1..Len(q) : HasAt(q, p, Head(words)) /\ WordsFrom(Tail(words), q, p + Len(Head(words)))

Hits(q) == {i \in 1..Len(PatternWords) : Occurs(PatternWords[i], q)}

\* C8: _detect_template returns the first template in catalog order whose
\* pattern matches anywhere in the question; with several matches the
\* earliest-registered one; None only when no pattern matches.
C8_FirstMatchWins ==
    pc = "returned" =>
        /\ probe.fn = "_detect_template"
        /\ IF Hits(question) = {} THEN probe.tpl = 0 ELSE probe.tpl = SetMin(Hits(question))

C8_Witness ==
    /\ pc = "returned"
    /\ Cardinality(Hits(question)) >= 2
    /\ probe.tpl = 1
    /\ question[1] = "Tong"

Pad2(n) == IF n < 10 THEN "0" \o ToString(n) ELSE ToString(n)

MonthStart(y, m) == ToString(y) \o "-" \o Pad2(m) \o "-01"

\* C9: the default time filter is CREATE_TIME >= first day of the invocation
\* month AND CREATE_TIME < first day of the following month, which for
\* December is 1 January of the next year, whatever the length of the month.
C9_MonthBounds ==
    pc = "returned" =>
        probe.text = "CREATE_TIME >= '" \o MonthStart(today.y, today.m)
                     \o "' AND CREATE_TIME < '"
                     \o (IF today.m = 12 THEN MonthStart(today.y + 1, 1)
                         ELSE MonthStart(today.y, today.m + 1))
                     \o "'"

C9_Witness ==
    /\ pc = "returned"
    /\ today = Date(2024, 12, 31)
    /\ probe.text = "CREATE_TIME >= '2024-12-01' AND CREATE_TIME < '2025-01-01'"

\* C10: for 这个月坪山街道办事处处理了多少案件 with no store configured the
\* pipeline matches the unit+time template, unit_name is 坪山街道办事处,
\* time_filter is the current-month bound, and the run finishes with status
\* mock and one example row.
C10_Scenario1 ==
    (question = Example1 /\ ~dbConfig /\ Finished) =>
        /\ pc = "END"
        /\ state.template = 1
        /\ "unit_name" \in DOMAIN state.params
        /\ state.params["unit_name"] = Join(PingShan \o JieDao \o BanShiChu)
        /\ "time_filter" \in DOMAIN state.params
        /\ state.params["time_filter"] = DefaultTimeFilter(today)
        /\ state.result.status = "mock"
        /\ state.result.rows = <<MockRow>>

\* what C10's run does give, the unit name apart
Scenario1Rest ==
    (question = Example1 /\ ~dbConfig /\ Finished) =>
        /\ pc = "END"
        /\ state.template = 1
        /\ state.params["unit_name"] = Join(ZheGeYue \o PingShan \o JieDao \o BanShiChu)
        /\ state.params["time_filter"] = DefaultTimeFilter(today)
        /\ state.result.status = "mock"
        /\ state.result.rows = <<MockRow>>

\* the question matches template 1 and names no street office, so the
\* required unit_name cannot be derived
UnitNameMissing ==
    /\ DetectTemplate(question, Templates) = 1
    /\ UnitSearch(question) = <<>>

AfterEnrich == pc \in {"build_sql", "execute", "respond", "END", "raised"}
AfterBuild == pc \in {"execute", "respond", "END", "raised"}

InLog(line) == \E i \in 1..Len(state.logs) : state.logs[i] = line

\* the query of template 1 with nothing in the unit_name placeholder
EmptyUnitSql ==
    "SELECT COUNT(*) AS AnJianShuLiang FROM pingshan_stat_info WHERE first_unit_name LIKE '%%' AND "
        \o DefaultTimeFilter(today)

\* C11: when a required parameter of the matched template cannot be derived,
\* enrichment logs it, applies no default (it is not time_filter), the query is
\* rendered with the empty string in its placeholder, and the run still
\* executes that query and produces its summary.
C11_MissingRequiredStillRuns ==
    UnitNameMissing =>
        /\ AfterEnrich => /\ InLog(LogMissing(<<"unit_name">>))
                          /\ "unit_name" \notin DOMAIN state.params
        /\ AfterBuild => state.sql = EmptyUnitSql
        /\ Finished => /\ pc = "END"
                       /\ gateway.calls = 1
                       /\ state.result.sql = EmptyUnitSql
                       /\ state.logs[Len(state.logs)]
                              = Summary(state.result.status, Len(state.result.rows))

\* what holds of C11 in every run: all of it up to the call of execute_sql,
\* and the rest whenever execute_sql returns
MissingRequiredWhenReturned ==
    UnitNameMissing =>
        /\ AfterEnrich => /\ InLog(LogMissing(<<"unit_name">>))
                          /\ "unit_name" \notin DOMAIN state.params
        /\ AfterBuild => state.sql = EmptyUnitSql
        /\ Finished => gateway.calls = 1
        /\ pc = "END" => /\ state.result.sql = EmptyUnitSql
                         /\ state.logs[Len(state.logs)]
                                = Summary(state.result.status, Len(state.result.rows))

\* C12: a stage leaves the state it was called with unchanged: the input's log
\* list and parameter map hold after the stage what they held before it.
C12_StagesLeaveInput == arg.after = arg.before

\* the four stages other than enrich_context do leave their input unchanged
OtherStagesLeaveInput == arg.node # "enrich_context" => arg.after = arg.before

\* the value a placeholder must get: the supplied one, else the empty string
Supplied(p, k) == IF k \in DOMAIN p THEN p[k] ELSE ""

\* the three queries of the catalog with their placeholders filled from p
ExpectedSql(k, p) ==
    IF k = 1
    THEN "SELECT COUNT(*) AS AnJianShuLiang FROM pingshan_stat_info WHERE first_unit_name LIKE '%"
             \o Supplied(p, "unit_name") \o "%' AND " \o Supplied(p, "time_filter")
    ELSE IF k = 2
    THEN "SELECT EVENT_SRC_NAME AS ShiJianLaiYuan, COUNT(*) AS ShuLiang FROM pingshan_stat_info WHERE "
             \o Supplied(p, "event_filter") \o " GROUP BY EVENT_SRC_NAME ORDER BY ShuLiang DESC"
    ELSE "SELECT SUB_TYPE_NAME AS ShiJianLeiXing, COUNT(*) AS ShiJianShuLiang FROM pingshan_stat_info WHERE SUB_TYPE_NAME IS NOT NULL AND SUB_TYPE_NAME <> '' GROUP BY SUB_TYPE_NAME ORDER BY ShiJianShuLiang DESC"

\* C13: _render_sql puts the supplied value into each declared placeholder and
\* the empty string where params has none, for required and optional names
\* alike, and does not raise for a declared name missing from params.
C13_RenderFillsPlaceholders ==
    pc \in {"again", "returned"} =>
        /\ probe.fn = "_render_sql"
        /\ probe.outs[1].raised = "none"
        /\ probe.outs[1].sql = ExpectedSql(probe.tpl, probe.params0)

C13_Witness ==
    /\ pc = "again"
    /\ probe.tpl = 1
    /\ DOMAIN probe.params0 = {"time_filter"}
    /\ probe.params0["time_filter"] = "T"
    /\ probe.outs[1].sql
           = "SELECT COUNT(*) AS AnJianShuLiang FROM pingshan_stat_info WHERE first_unit_name LIKE '%%' AND T"

RunAlone(q, t, cfg, drv, beh) ==
    LET s2 == EnrichContextNode(DetectIntentNode(InitialState(q), t), t)
        b == BuildSqlNode(s2)
        e == ExecuteNode(b.state, cfg, drv, beh, NoGateway)
    IN  IF b.raised # "none" THEN [raised |-> b.raised, state |-> s2]
        ELSE IF e.raised # "none" THEN [raised |-> e.raised, state |-> b.state]
        ELSE [raised |-> "none", state |-> RespondNode(e.state)]

\* C14: however the stages of two invocations of one compiled graph
\* interleave, each invocation ends with the intent, parameters, query, result
\* and log it produces when run alone.
C14_InvocationsIndependent ==
    \A i \in DOMAIN runs :
        runs[i].pc \in {"END", "raised"} =>
            LET alone == RunAlone(runs[i].question, today, dbConfig, driver, runs[i].beh)
            IN  /\ runs[i].raised = alone.raised
                /\ View(i) = alone.state

C14_Witness ==
    /\ DOMAIN runs = Invocations
    /\ \A i \in Invocations : runs[i].pc = "END"
    /\ SharedRef \in DOMAIN heap
    /\ runs[1].question = Example1
    /\ runs[2].question = Example3
    /\ View(1).intent = "data_query"
    /\ View(2).intent = "fallback"
    /\ View(1).logs # View(2).logs

\* C15: a call of execute_sql makes at most one connection attempt and at
\* most one query submission and answers with exactly one of the statuses
\* success, mock, error; nothing is retried, and an invocation calls
\* execute_sql exactly once.
C15_OneAttemptOneStatus ==
    /\ gateway.calls <= 1
    /\ gateway.connects <= 1
    /\ gateway.queries <= 1
    /\ Finished => gateway.calls = 1
    /\ gateway.calls = 1 => /\ "result" \in state.keys
                            /\ state.result.status \in Statuses

\* the part of C15 that holds in every state: one call, at most one connection
\* attempt and one query submission, and one status whenever the call returns
OneAttemptWhenReturned ==
    /\ gateway.calls <= 1
    /\ gateway.connects <= 1
    /\ gateway.queries <= 1
    /\ gateway.connects <= gateway.calls
    /\ gateway.queries <= gateway.connects
    /\ Finished => gateway.calls = 1
    /\ (gateway.calls = 1 /\ raised = "none") => /\ "result" \in state.keys
                                                 /\ state.result.status \in Statuses

LastLog(st) == GetLogs(st)[Len(GetLogs(st))]

\* 执行状态: mock。返回 1 行。
MockSummary == "ZhiXingZhuangTai: mock. FanHui 1 Hang."

\* C17: when an invocation is over, the last log entry is the summary built
\* from the result's status and its number of rows; with no store configured
\* it is the mock summary with one row, whatever the question.
C17_SummaryIsLast ==
    Finished =>
        /\ "result" \in state.keys
        /\ GetLogs(state) # <<>>
        /\ LastLog(state) = Summary(GetResult(state).status, Len(GetResult(state).rows))
        /\ ~dbConfig => LastLog(state) = MockSummary

\* the part of C17 that holds in every state: the summary of an invocation
\* that returns, and every invocation with no store configured returns
SummaryIsLastWhenReturned ==
    /\ pc = "END" =>
           /\ "result" \in state.keys
           /\ LastLog(state) = Summary(state.result.status, Len(state.result.rows))
    /\ (~dbConfig /\ Finished) => /\ pc = "END"
                                  /\ LastLog(state) = MockSummary

BeforeExecute == {"detect_intent", "enrich_context", "build_sql", "execute"}

\* C19: the result is absent before the execute stage, every invocation has
\* it written once, by the execute stage, and once written it never changes:
\* respond leaves status, rows, sql and note as they are.
C19_ResultWrittenOnce ==
    /\ [](pc \in BeforeExecute => "result" \notin state.keys)
    /\ [](Finished => "result" \in state.keys)
    /\ [][("result" \notin state.keys /\ "result" \in state'.keys) => pc = "execute"]_vars
    /\ [][("result" \in state.keys) => /\ "result" \in state'.keys
                                       /\ state'.result = state.result]_vars

\* the part of C19 that holds: absent before execute, written by execute
\* only, never changed afterwards, and present in every invocation that returns
ResultWrittenAtMostOnce ==
    /\ [](pc \in BeforeExecute => "result" \notin state.keys)
    /\ [](pc \in {"respond", "END"} => "result" \in state.keys)
    /\ [][("result" \notin state.keys /\ "result" \in state'.keys) => pc = "execute"]_vars
    /\ [][("result" \in state.keys) => /\ "result" \in state'.keys
                                       /\ state'.result = state.result]_vars

StrictPrefix(a, b) == Len(a) < Len(b) /\ SubSeq(b, 1, Len(a)) = a

\* the lines enrich_context can write about missing parameters
MissingLines ==
    {LogMissing(Missing(Templates[k].required_params, p)) :
        k \in 1..Len(Templates), p \in RenderParams}

SummaryLines == {Summary(s, n) : s \in Statuses, n \in 0..MaxRows}

\* the position in the stage order of the stage that writes the line (0: none)
StageOfLine(l) ==
    IF l \in {LogIntentDone, LogNoTemplate} THEN 1
    ELSE IF l = LogContextDone \/ l \in MissingLines THEN 2
    ELSE IF l \in {LogFallbackSql, LogSqlDone} THEN 3
    ELSE IF l = LogExecuteDone THEN 4
    ELSE IF l \in SummaryLines THEN 5
    ELSE 0

LinesInStageOrder(logs) ==
    /\ \A k \in 1..Len(logs) : StageOfLine(logs[k]) \in 1..Len(trace)
    /\ \A k \in 2..Len(logs) : StageOfLine(logs[k - 1]) <= StageOfLine(logs[k])
    /\ \A n \in 1..Len(trace) :
           (n < Len(trace) \/ pc # "raised") => \E k \in 1..Len(logs) : StageOfLine(logs[k]) = n

\* C20: whenever a stage hands over to the next, the log before the stage is
\* a strict prefix of the log after it (at least one line is added, no
\* earlier line is removed or rewritten), and the lines of the log are in
\* stage order.
C20_LogAppendOnly ==
    /\ [][pc' # "raised" => StrictPrefix(GetLogs(state), GetLogs(state'))]_vars
    /\ [](LinesInStageOrder(GetLogs(state)))

C20_Witness ==
    /\ pc = "END"
    /\ arg.node = "respond"
    /\ ~dbConfig
    /\ arg.before.logs = <<LogIntentDone, LogMissing(<<"unit_name">>), LogContextDone,
                           LogSqlDone, LogExecuteDone>>
    /\ state.logs = arg.before.logs \o <<MockSummary>>

Summarised == pc = "END" /\ GetLogs(state) # <<>> /\ LastLog(state) \in SummaryLines

\* C16: every invocation eventually reaches END with its summary appended,
\* for every question and every behaviour of the store: no configuration,
\* no driver, a refused or timed-out connection, a failing query, success.
C16_EventuallyEnds == <>Summarised

\* the part of C16 that holds: every invocation is eventually over, and it is
\* over at END with its summary unless the driver check raises
EventuallyOver ==
    /\ <>Finished
    /\ (~dbConfig \/ driver # "not_installed") => <>Summarised

Declared(tpl) == {tpl.required_params[k] : k \in 1..Len(tpl.required_params)}
                 \cup {tpl.optional_params[k] : k \in 1..Len(tpl.optional_params)}

\* the question holds the suffix 街道办事处 with at least one Chinese or
\* alphanumeric character right in front of it
HasUnitToken(q) == \E s \in 2..Len(q) : HasAt(q, s, UnitSuffix) /\ UnitClass(q[s - 1])

\* C22: _derive_params returns only keys the template declares; unit_name is
\* there exactly when the template declares it and the question holds a token
\* that ends in 街道办事处 (otherwise the key is left out, not set to empty);
\* event_filter, when required, is one constant for every question;
\* time_filter is there exactly when the template lists it as optional.
C22_DeriveKeys ==
    (pc = "returned" /\ probe.fn = "_derive_params") =>
        LET tpl == AnyTemplates[probe.tpl]
            p == probe.params
        IN  /\ DOMAIN p \subseteq Declared(tpl)
            /\ "unit_name" \in DOMAIN p <=> ("unit_name" \in Declared(tpl) /\ HasUnitToken(question))
            /\ "unit_name" \in DOMAIN p => p["unit_name"] # ""
            /\ "event_filter" \in DOMAIN p <=> InSeq("event_filter", tpl.required_params)
            /\ "event_filter" \in DOMAIN p => p["event_filter"] = EventFilter
            /\ "time_filter" \in DOMAIN p <=> InSeq("time_filter", tpl.optional_params)

C22_Witness ==
    /\ pc = "returned"
    /\ probe.fn = "_derive_params"
    /\ probe.tpl = 1
    /\ question = <<",">> \o PingShan \o UnitSuffix
    /\ DOMAIN probe.params = {"unit_name", "time_filter"}
    /\ probe.params["unit_name"] = "PingShanJieDaoBanShiChu"

\* execute_sql returns a dict whose sql is the string it was called with
Echoes == "result" \in state'.keys /\ state'.result.sql = GetSql(state)

\* the node leaves the recorded sql as it is
KeepsSql == "sql" \in state'.keys /\ state'.sql = state.sql

EchoedInState == "result" \in state.keys /\ state.result.sql = state.sql

\* C23: whatever execute_sql answers (mock without configuration, mock
\* without driver, success, error), the sql of the result is the string it
\* was called with; when the invocation is over it is the sql that build_sql
\* recorded, and neither execute nor respond changes that sql.
C23_QueryEchoed ==
    /\ [][pc = "execute" => Echoes]_vars
    /\ [](Finished => EchoedInState)
    /\ [][(pc \in {"execute", "respond"}) => KeepsSql]_vars

\* the part of C23 that holds: the echo whenever execute_sql returns, in the
\* state of every invocation that returns, with the sql left as build_sql wrote it
QueryEchoedWhenReturned ==
    /\ [][(pc = "execute" /\ raised' = "none") => Echoes]_vars
    /\ [](pc \in {"respond", "END"} => EchoedInState)
    /\ [][(pc \in {"execute", "respond"}) => KeepsSql]_vars

\* some required parameter of the template is absent from p or empty in it
SomeRequiredMissing(tpl, p) ==
    \E k \in 1..Len(tpl.required_params) :
        tpl.required_params[k] \notin DOMAIN p \/ p[tpl.required_params[k]] = ""

\* the missing-parameter lines there can be for the parameter names in use
AnyMissingLines ==
    {LogMissing(m) : m \in {<<a>> : a \in RenderNames} \cup {<<a, b>> : a, b \in RenderNames}}

\* the time_filter that _derive_params fills in for a template that lists it
\* as optional (the first catalog template)
DerivedTimeFilter(q, t) == DeriveParams(q, Templates[1], t)["time_filter"]

\* C21: enrich_context logs a missing-parameter line exactly when a required
\* parameter of the state's template is absent or empty; it fills time_filter
\* only, with the value _derive_params gives it, and leaves every other
\* parameter as it was; enriching its own output again gives the same params.
C21_EnrichFillsTimeFilterOnly ==
    (arg.node = "enrich_context" /\ pc = "build_sql") =>
        LET k == GetTemplate(arg.before)
            p0 == GetParams(arg.before)
            p1 == state.params
            miss == k # 0 /\ SomeRequiredMissing(AnyTemplates[k], p0)
            fill == /\ k # 0
                    /\ InSeq("time_filter", AnyTemplates[k].required_params)
                    /\ ("time_filter" \notin DOMAIN p0 \/ p0["time_filter"] = "")
            added == SubSeq(state.logs, Len(GetLogs(arg.before)) + 1, Len(state.logs))
        IN  /\ StrictPrefix(GetLogs(arg.before), state.logs)
            /\ (\E n \in 1..Len(added) : added[n] \in AnyMissingLines) <=> miss
            /\ Len(added) = IF miss THEN 2 ELSE 1
            /\ \A name \in (DOMAIN p0 \cup DOMAIN p1) \ {"time_filter"} :
                   /\ name \in DOMAIN p0
                   /\ name \in DOMAIN p1
                   /\ p1[name] = p0[name]
            /\ IF fill
               THEN /\ "time_filter" \in DOMAIN p1
                    /\ p1["time_filter"] = DerivedTimeFilter(question, today)
               ELSE /\ "time_filter" \in DOMAIN p1 <=> "time_filter" \in DOMAIN p0
                    /\ "time_filter" \in DOMAIN p0 => p1["time_filter"] = p0["time_filter"]
            /\ EnrichContextNode(state, today).params = p1

C21_Witness ==
    /\ arg.node = "enrich_context"
    /\ pc = "build_sql"
    /\ question = Example3
    /\ GetTemplate(arg.before) = 4
    /\ GetParams(arg.before) = Put(EmptyMap, "time_filter", "")
    /\ DOMAIN state.params = {"time_filter"}
    /\ state.params["time_filter"] = "CREATE_TIME >= '2024-12-01' AND CREATE_TIME < '2025-01-01'"
    /\ state.logs = <<LogIntentDone, LogNoTemplate,
                      LogMissing(<<"time_filter", "unit_name">>), LogContextDone>>

AfterDetect == pc \in {"enrich_context", "build_sql", "execute", "respond", "END", "raised"}

\* C24: after detect_intent, whatever dict the caller passed, intent is
\* fallback exactly when the state holds no template; with a template the
\* intent is the template's and the sql is that template rendered with the
\* state's params; with intent fallback the sql is the fixed count-all query.
C24_FallbackIffNoTemplate ==
    AfterDetect =>
        /\ state.intent = "fallback" <=> GetTemplate(state) = 0
        /\ GetTemplate(state) # 0 => state.intent = AnyTemplates[GetTemplate(state)].intent
        /\ (AfterBuild /\ GetTemplate(state) # 0) =>
               state.sql = RenderSql(AnyTemplates[GetTemplate(state)], GetParams(state)).sql
        /\ (AfterBuild /\ state.intent = "fallback") => state.sql = FallbackSql

\* what holds for every dict of the caller: the template, intent and sql of a
\* question that matches a pattern, the intent fallback of one that matches
\* none, and the count-all query whenever the state holds no template
DetectedOrNoTemplate ==
    AfterDetect =>
        LET k == DetectTemplate(question, Templates)
        IN  /\ k # 0 => /\ state.template = k
                        /\ state.intent = Templates[k].intent
                        /\ AfterBuild => state.sql = RenderSql(Templates[k], GetParams(state)).sql
            /\ k = 0 => state.intent = "fallback"
            /\ (AfterBuild /\ GetTemplate(state) = 0) => state.sql = FallbackSql

====
